---------------------------- MODULE Spec2Model ----------------------------
(***************************************************************************)
(* A model of Assignment2.cpp: the line validator and loader of            *)
(* ChargeDataModel, the statistics of DataAnalysis, the yes/no prompt of   *)
(* Input and the per-file loop of main.                                    *)
(*                                                                         *)
(* Text is a sequence of one-character strings.  A double read from a file *)
(* is an integer (the alphabet has no decimal point); an unsigned int that *)
(* takes part in wrapping arithmetic is a pair <<hi, lo>> of 16-bit limbs, *)
(* so that the arithmetic is modulo 2^32 exactly.                          *)
(***************************************************************************)
EXTENDS Integers, Sequences, FiniteSets, TLC

VARIABLES
    failStoresZero, \* the build: does a failed operator>>(double&) store 0?
    disk,           \* the files: path -> [exists, bytes]
    m_file,         \* ChargeDataModel::m_file   [is_open, path, pos, good]
    m_filepath,     \* ChargeDataModel::m_filepath
    m_charges,      \* ChargeDataModel::m_charges [null, cells]
    loc,            \* the locals of loadDataFromFile
    size,           \* the caller's variable bound to the `size` out-parameter
    pc,             \* the position of the running function
    filesToLoad,    \* main: the paths entered
    fileIdx,        \* main: the index of the range-for over filesToLoad
    output,         \* main: the result blocks printed so far
    calls,          \* number of calls made on the ChargeDataModel so far
    ret,            \* the value returned by the last call
    data,           \* DataAnalysis: the data argument
    stat,           \* DataAnalysis: the values computed
    stdin,          \* Input: the lines left on standard input
    firstStringSet, \* Input: first argument set
    secondStringSet,\* Input: second argument set
    line,           \* Input: the local `line`
    response,       \* Input: the local `response`
    console         \* Input: number of invalid-value messages printed

vars == <<failStoresZero, disk, m_file, m_filepath, m_charges, loc, size, pc,
          filesToLoad, fileIdx, output, calls, ret, data, stat,
          stdin, firstStringSet, secondStringSet, line, response, console>>

---------------------------------------------------------------------------
(* Bounds *)

MaxFileLen == 5      \* characters in a file of the loader specification

SeqsUpTo(S, n) == UNION {[1..k -> S] : k \in 0..n}

\* The characters files are made of: a digit, the sign, a blank, a letter
\* that is no part of any numeric literal, and the line terminator.
FileChars == {"1", "-", " ", "z", "\n"}

---------------------------------------------------------------------------
(* 32-bit unsigned arithmetic on limb pairs *)

Limb == 2^16

U32(n) == <<(n \div Limb) % Limb, n % Limb>>

U32Sub(a, b) ==
    LET lo     == a[2] - b[2]
        borrow == IF lo < 0 THEN 1 ELSE 0
        hi     == a[1] - b[1] - borrow
    IN  <<(hi + Limb) % Limb, (lo + Limb) % Limb>>

U32Add(a, b) ==
    LET lo    == a[2] + b[2]
        carry == lo \div Limb
        hi    == a[1] + b[1] + carry
    IN  <<hi % Limb, lo % Limb>>

---------------------------------------------------------------------------
(* namespace String *)

isspace(c) == c \in {" ", "\n"}

RECURSIVE ltrim(_)
ltrim(s) == IF s # <<>> /\ isspace(Head(s)) THEN ltrim(Tail(s)) ELSE s

RECURSIVE rtrim(_)
rtrim(s) ==
    IF s # <<>> /\ isspace(s[Len(s)]) THEN rtrim(SubSeq(s, 1, Len(s) - 1)) ELSE s

trim(s) == rtrim(ltrim(s))

---------------------------------------------------------------------------
(* The standard library: std::getline, operator>>(double&),                *)
(* operator>>(std::string&)                                                *)

isdigit(c) == c \in {"1"}

digitValue(c) == IF c = "1" THEN 1 ELSE 0

RECURSIVE decimal(_)
decimal(ds) ==
    IF ds = <<>> THEN 0
    ELSE 10 * decimal(SubSeq(ds, 1, Len(ds) - 1)) + digitValue(ds[Len(ds)])

RECURSIVE digitRun(_)
digitRun(s) ==
    IF s # <<>> /\ isdigit(Head(s)) THEN <<Head(s)>> \o digitRun(Tail(s)) ELSE <<>>

RECURSIVE tokenRun(_)
tokenRun(s) ==
    IF s # <<>> /\ ~isspace(Head(s)) THEN <<Head(s)>> \o tokenRun(Tail(s)) ELSE <<>>

\* std::getline(stream, line) on the bytes of a file from position pos
\* (0-based): the characters before the next '\n', which is consumed; at the
\* end of the file the stream stops being good.
RECURSIVE lineFrom(_, _)
lineFrom(bytes, pos) ==
    IF pos >= Len(bytes) \/ bytes[pos + 1] = "\n" THEN <<>>
    ELSE <<bytes[pos + 1]>> \o lineFrom(bytes, pos + 1)

getline(bytes, f) ==
    IF ~f.good THEN [line |-> <<>>, file |-> f]
    ELSE LET l    == lineFrom(bytes, f.pos)
             stop == f.pos + Len(l)
         IN  IF stop < Len(bytes)
             THEN [line |-> l, file |-> [f EXCEPT !.pos = stop + 1]]
             ELSE [line |-> l, file |-> [f EXCEPT !.pos = stop, !.good = FALSE]]

\* sstream >> possibleCharge on a string stream over s.  v is the value the
\* variable holds before the extraction.  A stream with nothing but white
\* space fails in the sentry and v is left as it is.  When the characters are
\* no number, a C++11 library stores 0 and an older one leaves v as it is: fz
\* says which one the build links.
extractDouble(s, v, fz) ==
    LET t      == ltrim(s)
        neg    == t # <<>> /\ Head(t) = "-"
        body   == IF neg THEN Tail(t) ELSE t
        digits == digitRun(body)
        rest   == SubSeq(body, Len(digits) + 1, Len(body))
    IN  IF t = <<>>
        THEN [good |-> FALSE, value |-> v, rest |-> <<>>]
        ELSE IF digits = <<>>
        THEN [good |-> FALSE, value |-> IF fz THEN 0 ELSE v, rest |-> body]
        ELSE [good  |-> rest # <<>>,
              value |-> IF neg THEN 0 - decimal(digits) ELSE decimal(digits),
              rest  |-> rest]

\* sstream >> emptyTest after that extraction: a stream that is not good
\* (failed, or at its end) leaves the string as it was, empty.
extractString(ss) == IF ~ss.good THEN <<>> ELSE tokenRun(ltrim(ss.rest))

---------------------------------------------------------------------------
(* class ChargeDataModel *)

Paths == {"a.dat", "b.dat"}

NoFile == [exists |-> FALSE, bytes |-> <<>>]

FileOf(bytes) == [exists |-> TRUE, bytes |-> bytes]

ClosedFile == [is_open |-> FALSE, path |-> "", pos |-> 0, good |-> TRUE]

NullCharges == [null |-> TRUE, cells |-> <<>>]

NoLocals == [maxSize |-> 0, finalSize |-> 0, i |-> 0, diag |-> 0,
             log |-> <<>>, oob |-> FALSE]

\* m_file.open(m_filepath, std::ios::in); return m_file.is_open();
openFile(d, f, filepath) ==
    IF filepath \in DOMAIN d /\ d[filepath].exists
    THEN [is_open |-> TRUE, path |-> filepath, pos |-> 0, good |-> TRUE]
    ELSE [f EXCEPT !.good = FALSE]

\* The bytes the open stream reads.
bytesOf(d, f) == IF f.is_open THEN d[f.path].bytes ELSE <<>>

\* std::count over the characters from the stream's position to its end.
countNewlines(bytes, f) ==
    IF ~f.good THEN 0
    ELSE Cardinality({k \in (f.pos + 1)..Len(bytes) : bytes[k] = "\n"})

\* getLineCount: the count, and the stream cleared and rewound.
getLineCount(bytes, f) ==
    [count |-> countNewlines(bytes, f),
     file  |-> [f EXCEPT !.pos = 0, !.good = TRUE]]

\* A variant of writeIndex without the compaction: the index is i.
writeIndex_noCompaction(i, maxSize, finalSize) == U32(i)

\* The index m_charges[i - maxSize + finalSize], in unsigned int arithmetic.
writeIndex(i, maxSize, finalSize) ==
    U32Add(U32Sub(U32(i), U32(maxSize)), U32(finalSize))

\* A variant of rejects that leaves out the test of the sign.
rejects_ignoresSign(possibleCharge, emptyTest) == emptyTest # <<>>

\* The rejection test of the loop body.
rejects(possibleCharge, emptyTest) == possibleCharge < 0 \/ emptyTest # <<>>

\* loadDataFromFile, lines 161-165: count the lines, allocate, set finalSize.
\* st is [file, charges, loc].
loadBegin(d, f) ==
    LET c == getLineCount(bytesOf(d, f), f)
    IN  [file    |-> c.file,
         charges |-> [null |-> FALSE, cells |-> [k \in 1..c.count |-> <<>>]],
         loc     |-> [NoLocals EXCEPT !.maxSize = c.count, !.finalSize = c.count]]

\* One iteration of the for loop, lines 167-197.  loc.log records, per
\* iteration, the line read, the verdict and the index written; loc.diag
\* counts the corrupt-data-point diagnostics printed; loc.oob records a write
\* outside the allocated array.
loopBody(d, fz, st) ==
    LET l              == st.loc
        g              == getline(bytesOf(d, st.file), st.file)
        trimmed        == trim(g.line)
        ss             == extractDouble(trimmed, 0 - 1, fz)
        possibleCharge == ss.value
        emptyTest      == extractString(ss)
        idx            == writeIndex(l.i, l.maxSize, l.finalSize)
        inside         == idx[1] = 0 /\ idx[2] < l.maxSize
    IN  IF rejects(possibleCharge, emptyTest)
        THEN [st EXCEPT
                !.file = g.file,
                !.loc  = [l EXCEPT
                            !.diag      = @ + 1,
                            !.finalSize = @ - 1,
                            !.i         = @ + 1,
                            !.log       = Append(@, [line     |-> g.line,
                                                     accepted |-> FALSE,
                                                     value    |-> possibleCharge,
                                                     index    |-> idx])]]
        ELSE [st EXCEPT
                !.file    = g.file,
                !.charges = IF inside
                            THEN [@ EXCEPT !.cells[idx[2] + 1] = <<possibleCharge>>]
                            ELSE @,
                !.loc     = [l EXCEPT
                            !.i   = @ + 1,
                            !.oob = @ \/ ~inside,
                            !.log = Append(@, [line     |-> g.line,
                                               accepted |-> TRUE,
                                               value    |-> possibleCharge,
                                               index    |-> idx])]]

RECURSIVE runLoop(_, _, _)
runLoop(d, fz, st) ==
    IF st.loc.i < st.loc.maxSize THEN runLoop(d, fz, loopBody(d, fz, st)) ELSE st

\* A variant of loadDataFromFile that carries on when the file cannot be
\* opened, as with an empty file.
loadDataFromFile_noExit(d, fz, f, filepath) ==
    LET opened == IF f.is_open THEN f ELSE openFile(d, f, filepath)
    IN  [exited |-> FALSE] @@ runLoop(d, fz, loadBegin(d, opened))

\* loadDataFromFile as a whole: exit(0) when the file cannot be opened, else
\* the state after the loop; size = finalSize.
loadDataFromFile(d, fz, f, filepath) ==
    LET opened == IF f.is_open THEN f ELSE openFile(d, f, filepath)
    IN  IF ~opened.is_open
        THEN [exited |-> TRUE, file |-> opened, charges |-> NullCharges,
              loc |-> NoLocals]
        ELSE [exited |-> FALSE] @@ runLoop(d, fz, loadBegin(d, opened))

\* What the caller reads through the returned pointer: the first n cells.
\* A cell is <<v>> once written and <<>> (an indeterminate value) before.
Dataset(charges, n) ==
    [k \in 1..n |-> IF k <= Len(charges.cells) THEN charges.cells[k] ELSE <<>>]

\* A variant of dispose that closes the file and keeps the buffer.
dispose_keepsBuffer(f, ch) ==
    [file    |-> IF f.is_open
                 THEN [is_open |-> FALSE, path |-> "", pos |-> 0, good |-> f.good]
                 ELSE f,
     charges |-> ch]

\* close() when open; delete[] and null the buffer.
dispose(f, ch) ==
    [file    |-> IF f.is_open
                 THEN [is_open |-> FALSE, path |-> "", pos |-> 0, good |-> f.good]
                 ELSE f,
     charges |-> NullCharges]

\* getChargeData(size): load when m_charges is null; return m_charges.  sz is
\* what the caller's variable holds before the call.
getChargeData(d, fz, f, filepath, ch, sz) ==
    IF ch.null
    THEN LET r == loadDataFromFile(d, fz, f, filepath)
         IN  r @@ [size |-> r.loc.finalSize]
    ELSE [exited |-> FALSE, file |-> f, charges |-> ch, loc |-> NoLocals,
          size |-> sz]

---------------------------------------------------------------------------
(* namespace DataAnalysis.  A double is [kind, num, den]: the finite value *)
(* num/den, a NaN or an infinity.                                          *)

NaN == [kind |-> "nan", num |-> 0, den |-> 1]

Fin(n, d) == [kind |-> "finite", num |-> n, den |-> d]

Unset == [kind |-> "unset", num |-> 0, den |-> 1]

NoStat == [mean |-> Unset, standardDeviation |-> Unset, errorInTheMean |-> Unset]

RECURSIVE sum(_, _)
sum(xs, n) == IF n = 0 THEN 0 ELSE sum(xs, n - 1) + xs[n]

\* sum over i < size of (data[i] - mean)^2, for mean = num/den: a numerator
\* over den^2.
RECURSIVE sumSquares(_, _, _)
sumSquares(xs, n, mean) ==
    IF n = 0 THEN 0
    ELSE sumSquares(xs, n - 1, mean)
         + (xs[n] * mean.den - mean.num) * (xs[n] * mean.den - mean.num)

\* total / (double)size
computeMean(xs, n) == IF n = 0 THEN NaN ELSE Fin(sum(xs, n), n)

\* The divisor (double)(size - 1): size - 1 is an unsigned int.
deviationDivisor(n) == U32Sub(U32(n), U32(1))

\* sqrt(total / (double)(size - 1)).  The result is the square root of
\* num / (den * divisor), or a NaN (0/0) or an infinity (x/0).
computeStandardDeviation(xs, n, mean) ==
    LET total   == IF n = 0 THEN Fin(0, 1)
                   ELSE IF mean.kind # "finite" THEN NaN
                   ELSE Fin(sumSquares(xs, n, mean), mean.den * mean.den)
        divisor == deviationDivisor(n)
        kind    == IF total.kind # "finite" THEN "nan"
                   ELSE IF divisor # <<0, 0>> THEN "finite"
                   ELSE IF total.num = 0 THEN "nan" ELSE "inf"
    IN  [kind |-> kind, num |-> total.num, den |-> total.den, divisor |-> divisor]

\* mean / sqrt((double)size)
computeStandardErrorInTheMean(mean, n) ==
    [kind |-> IF mean.kind # "finite" THEN "nan" ELSE "finite",
     num |-> mean.num, den |-> mean.den, root |-> n]

---------------------------------------------------------------------------
(* Values of variables a specification does not use *)

\* What an uninitialised unsigned int may hold.
UninitUInt == {0, 9}

\* A local that has not been assigned: <<>>, and <<v>> once it holds v.
Uninit == <<>>

\* No call has returned yet.
NoCall == [op |-> "none"]

mainVars  == <<filesToLoad, fileIdx, output>>
apiVars   == <<calls, ret>>
statVars  == <<data, stat>>
inputVars == <<stdin, firstStringSet, secondStringSet, line, response, console>>
modelVars == <<m_file, m_filepath, m_charges, loc, size>>

MainIdle  == filesToLoad = <<>> /\ fileIdx = 0 /\ output = <<>>
ApiIdle   == calls = 0 /\ ret = NoCall
StatIdle  == data = <<>> /\ stat = NoStat
InputIdle == /\ stdin = <<>> /\ firstStringSet = {} /\ secondStringSet = {}
             /\ line = <<>> /\ response = Uninit /\ console = 0
ModelIdle == /\ m_file = ClosedFile /\ m_filepath = "" /\ m_charges = NullCharges
             /\ loc = NoLocals /\ size = 0
DiskIdle  == failStoresZero = FALSE /\ disk = [p \in Paths |-> NoFile]

---------------------------------------------------------------------------
(* Specification SpecLoad: one call of loadDataFromFile, step by step *)

LoadFiles == {NoFile} \cup {FileOf(b) : b \in SeqsUpTo(FileChars, MaxFileLen)}

InitLoad ==
    /\ failStoresZero \in BOOLEAN
    /\ disk \in {[p \in Paths |-> IF p = "a.dat" THEN F ELSE NoFile] : F \in LoadFiles}
    /\ m_file = ClosedFile
    /\ m_filepath = "a.dat"
    /\ m_charges = NullCharges
    /\ loc = NoLocals
    /\ size \in UninitUInt
    /\ pc = "call"
    /\ MainIdle /\ ApiIdle /\ StatIdle /\ InputIdle

\* Lines 154-159: the file cannot be opened; exit(0).
LoadOpenFail ==
    /\ pc = "call"
    /\ ~m_file.is_open
    /\ ~openFile(disk, m_file, m_filepath).is_open
    /\ m_file' = openFile(disk, m_file, m_filepath)
    /\ pc' = "exited"
    /\ UNCHANGED <<failStoresZero, disk, m_filepath, m_charges, loc, size>>
    /\ UNCHANGED <<mainVars, apiVars, statVars, inputVars>>

\* Lines 154-165: the file is open; count, allocate.
LoadOpen ==
    /\ pc = "call"
    /\ LET opened == IF m_file.is_open THEN m_file
                     ELSE openFile(disk, m_file, m_filepath)
       IN  /\ opened.is_open
           /\ LET st == loadBegin(disk, opened)
              IN  /\ m_file' = st.file
                  /\ m_charges' = st.charges
                  /\ loc' = st.loc
    /\ pc' = "loop"
    /\ UNCHANGED <<failStoresZero, disk, m_filepath, size>>
    /\ UNCHANGED <<mainVars, apiVars, statVars, inputVars>>

\* Lines 167-197: one iteration.
LoadIter ==
    /\ pc = "loop"
    /\ loc.i < loc.maxSize
    /\ LET st == loopBody(disk, failStoresZero,
                          [file |-> m_file, charges |-> m_charges, loc |-> loc])
       IN  /\ m_file' = st.file
           /\ m_charges' = st.charges
           /\ loc' = st.loc
    /\ UNCHANGED <<failStoresZero, disk, m_filepath, size, pc>>
    /\ UNCHANGED <<mainVars, apiVars, statVars, inputVars>>

\* Line 198: size = finalSize.
LoadReturn ==
    /\ pc = "loop"
    /\ ~(loc.i < loc.maxSize)
    /\ size' = loc.finalSize
    /\ pc' = "done"
    /\ UNCHANGED <<failStoresZero, disk, m_file, m_filepath, m_charges, loc>>
    /\ UNCHANGED <<mainVars, apiVars, statVars, inputVars>>

NextLoad == LoadOpenFail \/ LoadOpen \/ LoadIter \/ LoadReturn

SpecLoad == InitLoad /\ [][NextLoad]_vars

---------------------------------------------------------------------------
(* The loader's claims.  The reference notions below restate the file      *)
(* format of the specification; they are what the loader is compared with. *)

\* The lines of a file, as reading line by line until the end of the file
\* gives them: every '\n'-terminated line, and a last unterminated one.
RECURSIVE SplitLines(_)
SplitLines(bytes) ==
    IF bytes = <<>> THEN <<>>
    ELSE LET l == lineFrom(bytes, 0)
         IN  <<l>> \o SplitLines(SubSeq(bytes, Len(l) + 2, Len(bytes)))

AllDigits(t) == t # <<>> /\ \A k \in 1..Len(t) : isdigit(t[k])

IsNegativeToken(t) == t # <<>> /\ Head(t) = "-" /\ AllDigits(Tail(t))

IsNumberToken(t) == AllDigits(t) \/ IsNegativeToken(t)

\* Some prefix of t is a number: t can be parsed as a floating-point number.
Parsable(t) == \E k \in 1..Len(t) : IsNumberToken(SubSeq(t, 1, k))

\* t parses to a negative number.
ParsesNegative(t) == \E k \in 1..Len(t) : IsNegativeToken(SubSeq(t, 1, k))

\* t has further content after the number parsed.
HasTrailing(t) == Parsable(t) /\ ~IsNumberToken(t)

\* A valid line: after trimming, a single floating-point token, value >= 0.
ValidLine(l) == AllDigits(trim(l))

RECURSIVE ValidValues(_)
ValidValues(ls) ==
    IF ls = <<>> THEN <<>>
    ELSE (IF ValidLine(Head(ls)) THEN <<<<decimal(trim(Head(ls)))>>>> ELSE <<>>)
         \o ValidValues(Tail(ls))

\* The reference loader: every line read until the end of the file, put
\* through the code's own validation, kept in order when it passes.
RECURSIVE ReferenceLoad(_, _)
ReferenceLoad(ls, fz) ==
    IF ls = <<>> THEN <<>>
    ELSE LET ss == extractDouble(trim(Head(ls)), 0 - 1, fz)
         IN  (IF rejects(ss.value, extractString(ss)) THEN <<>> ELSE <<<<ss.value>>>>)
             \o ReferenceLoad(Tail(ls), fz)

LoadedBytes == disk[m_filepath].bytes

Rejected(log) == {k \in 1..Len(log) : ~log[k].accepted}

Accepted(log) == {k \in 1..Len(log) : log[k].accepted}

RECURSIVE AcceptedValues(_)
AcceptedValues(log) ==
    IF log = <<>> THEN <<>>
    ELSE (IF Head(log).accepted THEN <<<<Head(log).value>>>> ELSE <<>>)
         \o AcceptedValues(Tail(log))

\* C1 (as claimed): when loadDataFromFile returns, the Dataset is exactly the
\* sequence of the values of the file's valid lines, in file order.
C1_DatasetIsValidLines ==
    pc = "done" =>
        Dataset(m_charges, size) = ValidValues(SplitLines(LoadedBytes))

\* C2 (as claimed): every line read whose trimmed text cannot be parsed as a
\* number is rejected: no value is stored for it, and every rejection prints
\* one diagnostic and lowers finalSize by one.
C2_UnparsableRejected ==
    pc \in {"loop", "done"} =>
        /\ \A k \in 1..Len(loc.log) :
              ~Parsable(trim(loc.log[k].line)) => ~loc.log[k].accepted
        /\ loc.diag = Cardinality(Rejected(loc.log))
        /\ loc.finalSize = loc.maxSize - Cardinality(Rejected(loc.log))

\* C3: every line read that parses to a negative number or has further
\* content after the number is rejected and stores no value; the Dataset holds
\* the values of the accepted lines only, and the size returned is the number
\* of lines counted less the number of lines rejected.
C3_NegativeAndTrailingExcluded ==
    pc \in {"loop", "done"} =>
        /\ loc.maxSize = Cardinality({k \in 1..Len(LoadedBytes) : LoadedBytes[k] = "\n"})
        /\ \A k \in 1..Len(loc.log) :
              /\ loc.log[k].line = SplitLines(LoadedBytes)[k]
              /\ (ParsesNegative(trim(loc.log[k].line)) \/ HasTrailing(trim(loc.log[k].line)))
                    => ~loc.log[k].accepted
        /\ \A k \in 1..Len(SplitLines(LoadedBytes)) :
              (ParsesNegative(trim(SplitLines(LoadedBytes)[k]))
                  \/ HasTrailing(trim(SplitLines(LoadedBytes)[k])))
                    => k \notin Accepted(loc.log)
        /\ loc.finalSize = loc.maxSize - Cardinality(Rejected(loc.log))
        /\ pc = "done" =>
              /\ size = loc.maxSize - Cardinality(Rejected(loc.log))
              /\ Dataset(m_charges, size) = AcceptedValues(loc.log)

\* C3's case: a load that returned after rejecting a negative line and
\* accepting another, so that the size returned is below the line count.
C3_Witness ==
    /\ pc = "done"
    /\ \E k \in Rejected(loc.log) : ParsesNegative(trim(loc.log[k].line))
    /\ Accepted(loc.log) # {}
    /\ size < loc.maxSize

\* C4 (as claimed): the Dataset loadDataFromFile produces is the one a loader
\* that reads and validates line by line until the end of the file produces.
C4_CountIsOnlyAHint ==
    pc = "done" =>
        Dataset(m_charges, size)
            = ReferenceLoad(SplitLines(LoadedBytes), failStoresZero)

\* C9: every accepting iteration writes at the index, computed modulo 2^32,
\* equal to the number of values accepted before it; every write is inside the
\* array; on return the accepted values fill indices 0..finalSize-1 and no
\* other cell is written.
C9_WriteIndexIsAcceptedCount ==
    pc \in {"loop", "done"} =>
        /\ \A k \in Accepted(loc.log) :
              loc.log[k].index = U32(Cardinality({j \in Accepted(loc.log) : j < k}))
        /\ ~loc.oob
        /\ Len(m_charges.cells) = loc.maxSize
        /\ \A c \in 1..loc.maxSize :
              m_charges.cells[c] =
                  IF c <= Cardinality(Accepted(loc.log))
                  THEN AcceptedValues(loc.log)[c] ELSE <<>>
        /\ pc = "done" => loc.finalSize = Cardinality(Accepted(loc.log))

\* C9's case: a load that returned having accepted a line after a rejected one,
\* so the write index differs from i.
C9_Witness ==
    /\ pc = "done"
    /\ \E j, k \in 1..Len(loc.log) :
          j < k /\ ~loc.log[j].accepted /\ loc.log[k].accepted
             /\ loc.log[k].index # U32(k - 1)

---------------------------------------------------------------------------
(* Specification SpecStat: the three statistics of main, on one dataset *)

MaxStatLen == 4      \* elements of a dataset of the statistics specification

StatValues == 0..2

InitStat ==
    /\ data \in SeqsUpTo(StatValues, MaxStatLen)
    /\ size = Len(data)
    /\ stat = NoStat
    /\ pc = "mean"
    /\ DiskIdle
    /\ m_file = ClosedFile /\ m_filepath = "" /\ m_charges = NullCharges
    /\ loc = NoLocals
    /\ MainIdle /\ ApiIdle /\ InputIdle

StatMean ==
    /\ pc = "mean"
    /\ stat' = [stat EXCEPT !.mean = computeMean(data, size)]
    /\ pc' = "deviation"
    /\ UNCHANGED <<failStoresZero, disk, modelVars, data>>
    /\ UNCHANGED <<mainVars, apiVars, inputVars>>

StatDeviation ==
    /\ pc = "deviation"
    /\ stat' = [stat EXCEPT
                  !.standardDeviation = computeStandardDeviation(data, size, stat.mean)]
    /\ pc' = "error"
    /\ UNCHANGED <<failStoresZero, disk, modelVars, data>>
    /\ UNCHANGED <<mainVars, apiVars, inputVars>>

StatError ==
    /\ pc = "error"
    /\ stat' = [stat EXCEPT
                  !.errorInTheMean = computeStandardErrorInTheMean(stat.mean, size)]
    /\ pc' = "end"
    /\ UNCHANGED <<failStoresZero, disk, modelVars, data>>
    /\ UNCHANGED <<mainVars, apiVars, inputVars>>

NextStat == StatMean \/ StatDeviation \/ StatError

SpecStat == InitStat /\ [][NextStat]_vars

\* C7 (as claimed): the divisor of computeStandardDeviation is positive
\* exactly when size >= 2, it is 0 at size = 1, and for every size < 2 the
\* result is no finite number.
C7_DivisorPositiveFromTwo ==
    pc \in {"error", "end"} =>
        /\ (stat.standardDeviation.divisor # <<0, 0>>) <=> (size >= 2)
        /\ size = 1 => stat.standardDeviation.divisor = <<0, 0>>
        /\ size < 2 => stat.standardDeviation.kind \in {"nan", "inf"}

---------------------------------------------------------------------------
(* Specification SpecMain: the loop of main over filesToLoad *)

MaxFiles == 3        \* paths in filesToLoad

\* File contents of the main and call-sequence specifications.
SampleFiles ==
    {NoFile,
     FileOf(<<>>),
     FileOf(<<"1", "\n", "1", "1", "\n">>),
     FileOf(<<"1", "\n", "z", "\n", "-", "1", "\n", "1", " ", "z", "\n">>),
     FileOf(<<"1", "1", "1", "\n", " ", "\n", "1">>)}

SampleDisks == [Paths -> SampleFiles]

\* One block of results printed by main: the file, and the statistics.
report(file, ch, n) ==
    LET xs   == [k \in 1..n |-> ch.cells[k][1]]
        mean == computeMean(xs, n)
    IN  [file |-> file, data |-> xs,
         mean |-> mean,
         standardDeviation |-> computeStandardDeviation(xs, n, mean),
         errorInTheMean |-> computeStandardErrorInTheMean(mean, n)]

InitMain ==
    /\ failStoresZero \in BOOLEAN
    /\ disk \in SampleDisks
    /\ filesToLoad \in SeqsUpTo(Paths, MaxFiles) \ {<<>>}
    /\ fileIdx = 1
    /\ output = <<>>
    /\ m_file = ClosedFile /\ m_filepath = "" /\ m_charges = NullCharges
    /\ loc = NoLocals
    /\ size = 0
    /\ pc = "for"
    /\ ApiIdle /\ StatIdle /\ InputIdle

\* model.init(file); unsigned int size;
MainInit ==
    /\ pc = "for"
    /\ fileIdx <= Len(filesToLoad)
    /\ m_filepath' = filesToLoad[fileIdx]
    /\ size' \in UninitUInt
    /\ pc' = "get"
    /\ UNCHANGED <<failStoresZero, disk, m_file, m_charges, loc>>
    /\ UNCHANGED <<mainVars, apiVars, statVars, inputVars>>

\* model.getChargeData(size), the load and its exit(0) included.
MainGet ==
    /\ pc = "get"
    /\ LET r == getChargeData(disk, failStoresZero, m_file, m_filepath,
                              m_charges, size)
       IN  /\ m_file' = r.file
           /\ m_charges' = r.charges
           /\ loc' = r.loc
           /\ size' = IF r.exited THEN size ELSE r.size
           /\ pc' = IF r.exited THEN "exited" ELSE "stats"
    /\ UNCHANGED <<failStoresZero, disk, m_filepath>>
    /\ UNCHANGED <<mainVars, apiVars, statVars, inputVars>>

\* The three statistics and the printing of them.
MainReport ==
    /\ pc = "stats"
    /\ output' = Append(output, report(filesToLoad[fileIdx], m_charges, size))
    /\ pc' = "dispose"
    /\ UNCHANGED <<failStoresZero, disk, modelVars, filesToLoad, fileIdx>>
    /\ UNCHANGED <<apiVars, statVars, inputVars>>

\* model.dispose(); the next file.
MainDispose ==
    /\ pc = "dispose"
    /\ LET r == dispose(m_file, m_charges)
       IN  m_file' = r.file /\ m_charges' = r.charges
    /\ fileIdx' = fileIdx + 1
    /\ pc' = "for"
    /\ UNCHANGED <<failStoresZero, disk, m_filepath, loc, size>>
    /\ UNCHANGED <<filesToLoad, output, apiVars, statVars, inputVars>>

\* The loop is over: return 0 and ~ChargeDataModel.
MainEnd ==
    /\ pc = "for"
    /\ fileIdx > Len(filesToLoad)
    /\ LET r == dispose(m_file, m_charges)
       IN  m_file' = r.file /\ m_charges' = r.charges
    /\ pc' = "end"
    /\ UNCHANGED <<failStoresZero, disk, m_filepath, loc, size>>
    /\ UNCHANGED <<mainVars, apiVars, statVars, inputVars>>

NextMain == MainInit \/ MainGet \/ MainReport \/ MainDispose \/ MainEnd

SpecMain == InitMain /\ [][NextMain]_vars

\* What a ChargeDataModel that has done nothing else loads from a path.
FreshLoad(path) == loadDataFromFile(disk, failStoresZero, ClosedFile, path)

FreshValues(path) ==
    LET r == FreshLoad(path)
    IN  [k \in 1..r.loc.finalSize |-> r.charges.cells[k][1]]

\* C5: a path that cannot be opened ends the run inside loadDataFromFile.  The
\* step from the getChargeData call on such a path goes to exit and prints
\* nothing; no step follows the exit; and at the exit the results printed are
\* exactly those of the files before it, each in full, all of which could be
\* opened, while the stream is open on no file.
C5_OpenFailureEndsRun ==
    /\ [](pc = "exited" =>
            /\ ~disk[filesToLoad[fileIdx]].exists
            /\ ~m_file.is_open
            /\ Len(output) = fileIdx - 1
            /\ \A j \in 1..Len(output) :
                  /\ disk[filesToLoad[j]].exists
                  /\ output[j] = report(filesToLoad[j], FreshLoad(filesToLoad[j]).charges,
                                        FreshLoad(filesToLoad[j]).loc.finalSize))
    /\ [][/\ (pc = "get" /\ ~disk[m_filepath].exists)
                => (pc' = "exited" /\ output' = output)
          /\ pc # "exited"]_vars

\* C5's case: the run ended at a file that is neither the first nor the last.
C5_Witness ==
    /\ pc = "exited"
    /\ 1 < fileIdx
    /\ fileIdx < Len(filesToLoad)
    /\ output # <<>>

\* C6: at every getChargeData call of main the buffer is null and the stream
\* closed; what the call yields, and what is printed for a file, is what a
\* fresh model loads from that file's path, so two entries of filesToLoad
\* with the same path get the same results.
C6_EachFileLoadedFresh ==
    /\ pc = "get" => m_charges.null /\ ~m_file.is_open
    /\ pc = "stats" =>
          /\ size = FreshLoad(m_filepath).loc.finalSize
          /\ m_charges.cells = FreshLoad(m_filepath).charges.cells
    /\ \A j \in 1..Len(output) :
          /\ output[j].file = filesToLoad[j]
          /\ output[j].data = FreshValues(filesToLoad[j])
    /\ \A j, k \in 1..Len(output) :
          filesToLoad[j] = filesToLoad[k] => output[j] = output[k]

\* C6's case: a file loaded again after a file with other data.
C6_Witness ==
    /\ Len(output) = 3
    /\ output[1].file = output[3].file
    /\ output[2].file # output[1].file
    /\ output[1].data # <<>>
    /\ output[2].data # <<>>
    /\ output[2].data # output[1].data

---------------------------------------------------------------------------
(* Specification SpecModel: any calls of init, getChargeData and dispose   *)
(* on one ChargeDataModel                                                  *)

MaxCalls == 4        \* calls made on the model

InitModel ==
    /\ failStoresZero \in BOOLEAN
    /\ disk \in SampleDisks
    /\ m_file = ClosedFile /\ m_filepath = "" /\ m_charges = NullCharges
    /\ loc = NoLocals
    /\ size \in UninitUInt
    /\ pc = "api"
    /\ calls = 0
    /\ ret = NoCall
    /\ MainIdle /\ StatIdle /\ InputIdle

\* init(filepath)
ApiInit(path) ==
    /\ pc = "api"
    /\ calls < MaxCalls
    /\ m_filepath' = path
    /\ calls' = calls + 1
    /\ ret' = [op |-> "init"]
    /\ UNCHANGED <<failStoresZero, disk, m_file, m_charges, loc, size, pc>>
    /\ UNCHANGED <<mainVars, statVars, inputVars>>

\* getChargeData(size), with a variable of the caller's that holds anything.
ApiGet ==
    /\ pc = "api"
    /\ calls < MaxCalls
    /\ \E sz \in UninitUInt \cup {size} :
          LET r == getChargeData(disk, failStoresZero, m_file, m_filepath,
                                 m_charges, sz)
          IN  /\ m_file' = r.file
              /\ m_charges' = r.charges
              /\ loc' = r.loc
              /\ size' = IF r.exited THEN sz ELSE r.size
              /\ pc' = IF r.exited THEN "exited" ELSE "api"
              /\ ret' = IF r.exited THEN [op |-> "exit"]
                        ELSE [op |-> "get", charges |-> r.charges]
    /\ calls' = calls + 1
    /\ UNCHANGED <<failStoresZero, disk, m_filepath>>
    /\ UNCHANGED <<mainVars, statVars, inputVars>>

\* dispose()
ApiDispose ==
    /\ pc = "api"
    /\ calls < MaxCalls
    /\ LET r == dispose(m_file, m_charges)
       IN  m_file' = r.file /\ m_charges' = r.charges
    /\ calls' = calls + 1
    /\ ret' = [op |-> "dispose"]
    /\ UNCHANGED <<failStoresZero, disk, m_filepath, loc, size, pc>>
    /\ UNCHANGED <<mainVars, statVars, inputVars>>

NextModel == (\E path \in Paths : ApiInit(path)) \/ ApiGet \/ ApiDispose

SpecModel == InitModel /\ [][NextModel]_vars

\* C8 (as claimed): a getChargeData call that returns, returns the Dataset of
\* the file most recently passed to init and leaves that Dataset's element
\* count in the caller's size variable.
C8_GetReturnsCurrentFile ==
    ret.op = "get" =>
        /\ size = FreshLoad(m_filepath).loc.finalSize
        /\ ret.charges.cells = FreshLoad(m_filepath).charges.cells

---------------------------------------------------------------------------
(* namespace Input, and specification SpecInput: one call of               *)
(* getBetweenTwoStringSetOptions                                           *)

MaxStdinLines == 2   \* lines on standard input

tolower(c) ==
    CASE c = "Y" -> "y"
      [] c = "E" -> "e"
      [] c = "S" -> "s"
      [] c = "N" -> "n"
      [] c = "O" -> "o"
      [] OTHER   -> c

icompare(a, b) ==
    IF Len(a) # Len(b) THEN FALSE
    ELSE \A k \in 1..Len(a) : tolower(a[k]) = tolower(b[k])

\* std::find_if(set.begin(), set.end(), icompare(a, line)) != set.end()
found(set, l) == \E a \in set : icompare(a, l)

validTrues ==
    {<<"y", "e", "s">>, <<"y">>, <<"t", "r", "u", "e">>, <<"1">>}

validFalses ==
    {<<"n", "o">>, <<"n">>, <<"f", "a", "l", "s", "e">>, <<"0">>}

\* The argument sets: those of getBool, and a pair with a common member.
StringSetPairs ==
    {<<validTrues, validFalses>>, <<{<<"y">>, <<"1">>}, {<<"n">>, <<"1">>}>>}

InputLines ==
    {<<"y">>, <<"Y", "E", "S">>, <<"n">>, <<"N", "o">>, <<"1">>, <<"0">>,
     <<"x">>, <<>>, <<"y", "y">>}

\* What an uninitialised int may hold.
UninitInt == {0 - 1, 0, 1, 7}

InitInput ==
    /\ stdin \in SeqsUpTo(InputLines, MaxStdinLines)
    /\ \E pair \in StringSetPairs :
          firstStringSet = pair[1] /\ secondStringSet = pair[2]
    /\ line = <<>>
    /\ response = Uninit
    /\ console = 0
    /\ ret = NoCall
    /\ calls = 0
    /\ pc = "getline"
    /\ DiskIdle /\ ModelIdle /\ MainIdle /\ StatIdle

\* One turn of the while loop: a line is read and matched.
InputLine ==
    /\ pc = "getline"
    /\ stdin # <<>>
    /\ line' = Head(stdin)
    /\ stdin' = Tail(stdin)
    /\ IF found(firstStringSet, Head(stdin))
       THEN response' = <<1>> /\ pc' = "return" /\ console' = console
       ELSE IF found(secondStringSet, Head(stdin))
       THEN response' = <<0 - 1>> /\ pc' = "return" /\ console' = console
       ELSE response' = response /\ pc' = pc /\ console' = console + 1
    /\ UNCHANGED <<firstStringSet, secondStringSet, apiVars>>
    /\ UNCHANGED <<failStoresZero, disk, modelVars, mainVars, statVars>>

\* std::getline fails at the end of standard input: the loop is left.
InputEof ==
    /\ pc = "getline"
    /\ stdin = <<>>
    /\ line' = <<>>
    /\ pc' = "return"
    /\ UNCHANGED <<stdin, firstStringSet, secondStringSet, response, console, apiVars>>
    /\ UNCHANGED <<failStoresZero, disk, modelVars, mainVars, statVars>>

\* return response; an unassigned response is an indeterminate value.
InputReturn ==
    /\ pc = "return"
    /\ \E v \in (IF response = Uninit THEN UninitInt ELSE {response[1]}) :
          ret' = [op |-> "return", value |-> v]
    /\ pc' = "returned"
    /\ UNCHANGED <<stdin, firstStringSet, secondStringSet, line, response, console, calls>>
    /\ UNCHANGED <<failStoresZero, disk, modelVars, mainVars, statVars>>

NextInput == InputLine \/ InputEof \/ InputReturn

SpecInput == InitInput /\ [][NextInput]_vars

\* C10 (as claimed): whenever getBetweenTwoStringSetOptions returns, the last
\* line read matches a member of one of the two sets, and the value returned
\* is 1 when it matches the first set and -1 when it matches only the second.
C10_ReturnsOnlyThroughMatch ==
    pc = "returned" =>
        /\ found(firstStringSet, line) \/ found(secondStringSet, line)
        /\ ret.value = IF found(firstStringSet, line) THEN 1 ELSE 0 - 1

=============================================================================
